---- MODULE Spec2Model ----
(***************************************************************************)
(* A model of the Sudoku solver of src/src/lib.rs: the 4-bit-per-cell Grid, *)
(* the ValueSet of candidate digits, the SolveState (grid + candidate      *)
(* cache), the constraint rule get_candidates, the sequential and the       *)
(* parallel recursive solver, the renderer (Display) and parse_grid.        *)
(***************************************************************************)
EXTENDS Integers, Sequences, FiniteSets, TLC

VARIABLES
    input,      \* the Grid handed to the operation under study
    grid,       \* SpecGrid: a Grid mutated through Grid::set
    nsets,      \* SpecGrid: the number of Grid::set calls made
    outcome,    \* SpecGrid: what the last Grid call did
    text,       \* SpecGrid: the text last rendered (a sequence of characters)
    parsed,     \* SpecGrid: the Option<Grid> last returned by parse_grid
    st,         \* SpecState: the current SolveState
    last,       \* SpecState: the last SolveState::assign call and its result
    stack,      \* SpecSeq: the call stack of solve_recursive_internal
    ret,        \* SpecSeq: the value being returned to the top frame
    result,     \* SpecSeq: the Option<Grid> solve_recursive returned
    tasks,      \* SpecPar: the calls of solve_recursive_internal_par, by path
    parResult   \* SpecPar: the Option<Grid> solve_recursive_par returned

vars == <<input, grid, nsets, outcome, text, parsed, st, last, stack, ret, result,
          tasks, parResult>>

-----------------------------------------------------------------------------
(* Constants of the program *)

EMPTY_CELL == 0
NUM_CELLS == 9 * 9
Cells == 0 .. (NUM_CELLS - 1)
Digits == 1 .. 9

(* Option<T> *)
None == [some |-> FALSE]
Some(v) == [some |-> TRUE, val |-> v]

-----------------------------------------------------------------------------
(* Grid *)

\* get_index: y * 9 + x; the assert!(x < 9 && y < 9) is IndexOk
IndexOk(x, y) == x < 9 /\ y < 9
get_index(x, y) == y * 9 + x

\* BitField::store on a 4-bit range keeps the low 4 bits of the u8
store(val) == val % 16

\* the assert of Grid::new
ValueOk(value) == (value >= 1 /\ value <= 9) \/ value = EMPTY_CELL

\* Grid::new: None stands for the panic of the assert (or of values[i])
Grid_new(values) ==
    IF Len(values) >= NUM_CELLS /\ \A i \in Cells : ValueOk(values[i + 1])
    THEN Some([i \in Cells |-> store(values[i + 1])])
    ELSE None

Grid_get(g, x, y) == g[get_index(x, y)]

Grid_set(g, val, x, y) == [g EXCEPT ![get_index(x, y)] = store(val)]

-----------------------------------------------------------------------------
(* impl Display for Grid and parse_grid; a text is a sequence of characters *)

DigitChars == <<"0", "1", "2", "3", "4", "5", "6", "7", "8", "9">>

\* write!(f, "{}", val) for a u8
RECURSIVE Decimal(_)
Decimal(val) ==
    IF val < 10 THEN <<DigitChars[val + 1]>>
    ELSE Decimal(val \div 10) \o <<DigitChars[(val % 10) + 1]>>

\* the same with a space for an empty cell
CellText_blank(val) == IF val = EMPTY_CELL THEN <<" ">> ELSE Decimal(val)

\* lines 68-73: "." for EMPTY_CELL, the number otherwise
CellText(val) == IF val = EMPTY_CELL THEN <<".">> ELSE Decimal(val)

\* writeln!(f, "+------+------+-----+")
SepLine ==
    <<"+", "-", "-", "-", "-", "-", "-", "+", "-", "-", "-", "-", "-", "-",
      "+", "-", "-", "-", "-", "-", "+", "\n">>

\* the loop over x of one row, from column x on
RECURSIVE RowText(_, _, _)
RowText(g, y, x) ==
    IF x = 9 THEN <<"|", "\n">>
    ELSE (IF x % 3 = 0 THEN <<"|">> ELSE << >>)
         \o CellText(Grid_get(g, x, y))
         \o (IF x < 8 THEN <<" ">> ELSE << >>)
         \o RowText(g, y, x + 1)

\* the loop over y, from row y on, and the closing separator
RECURSIVE DisplayFrom(_, _)
DisplayFrom(g, y) ==
    IF y = 9 THEN SepLine
    ELSE (IF y % 3 = 0 THEN SepLine ELSE << >>) \o RowText(g, y, 0) \o DisplayFrom(g, y + 1)

Display(g) == DisplayFrom(g, 0)

is_digit(c) == \E d \in 1 .. 10 : DigitChars[d] = c

\* c.to_digit(10).unwrap() for a digit character
to_digit(c) == (CHOOSE d \in 1 .. 10 : DigitChars[d] = c) - 1

\* the filter of parse_grid: the characters kept, in order
Extracted(t) == SelectSeq(t, LAMBDA c : is_digit(c) \/ c = ".")

\* parse_grid: the digits extracted are 0..9, so the assert of Grid::new holds
parse_grid(t) ==
    LET kept == Extracted(t)
        nums == [k \in 1 .. Len(kept) |-> IF kept[k] = "." THEN 0 ELSE to_digit(kept[k])]
    IN  IF Len(nums) = NUM_CELLS THEN Grid_new(nums) ELSE None

-----------------------------------------------------------------------------
(* ValueSet: the u16 bit mask, bit (v-1) set iff digit v is a member, is   *)
(* modelled by the set of its members.                                      *)

ValueSet_empty == {}
ValueSet_full == Digits

contains(s, value) == IF value = EMPTY_CELL THEN FALSE ELSE value \in s
count(s) == Cardinality(s)
remove(s, value) == IF value = EMPTY_CELL THEN s ELSE s \ {value}

\* ValueSetIterator::next on (set, next): the item and the iterator after it
RECURSIVE ValueSetIterator_next_lt9(_, _)
ValueSetIterator_next_lt9(s, next) ==
    IF next < 9
    THEN IF contains(s, next)
         THEN [item |-> Some(next), next |-> next + 1]
         ELSE ValueSetIterator_next_lt9(s, next + 1)
    ELSE [item |-> None, next |-> next]

RECURSIVE ValueSetIterator_next(_, _)
ValueSetIterator_next(s, next) ==
    IF next <= 9
    THEN IF contains(s, next)
         THEN [item |-> Some(next), next |-> next + 1]
         ELSE ValueSetIterator_next(s, next + 1)
    ELSE [item |-> None, next |-> next]

-----------------------------------------------------------------------------
(* The constraint rule *)

RowCells(y) == {get_index(cx, y) : cx \in 0 .. 8}
ColCells(x) == {get_index(x, cy) : cy \in 0 .. 8}
BoxCells(x, y) ==
    LET sx == (x \div 3) * 3
        sy == (y \div 3) * 3
    IN  {get_index(cx, cy) : cx \in sx .. sx + 2, cy \in sy .. sy + 2}

\* every cell the three loops of get_candidates / remove_val_from_peers
\* visit, as a table (the cell itself included, as in the code)
Scanned == [i \in Cells |->
              RowCells(i \div 9) \cup ColCells(i % 9) \cup BoxCells(i % 9, i \div 9)]

\* the same without the "Scan vertical" loop
get_candidates_no_column(g, x, y) ==
    IF Grid_get(g, x, y) # EMPTY_CELL
    THEN ValueSet_empty
    ELSE {v \in ValueSet_full :
            \A i \in RowCells(y) \cup BoxCells(x, y) : remove({v}, g[i]) # {}}

get_candidates(g, x, y) ==
    IF Grid_get(g, x, y) # EMPTY_CELL
    THEN ValueSet_empty
    ELSE {v \in ValueSet_full :
            \A i \in Scanned[get_index(x, y)] : remove({v}, g[i]) # {}}

-----------------------------------------------------------------------------
(* SolveState *)

SolveState_new(g) ==
    [grid |-> g,
     candidates |-> [i \in Cells |-> get_candidates(g, i % 9, i \div 9)]]

deadlocked(s) ==
    \E y \in 0 .. 8 : \E x \in 0 .. 8 :
        Grid_get(s.grid, x, y) = EMPTY_CELL /\ count(s.candidates[get_index(x, y)]) = 0

\* the same without the "Constrain Vertical" loop
remove_val_from_peers_no_column(s, val, x, y) ==
    [s EXCEPT !.candidates =
        [i \in Cells |-> IF i \in RowCells(y) \cup BoxCells(x, y)
                         THEN remove(s.candidates[i], val)
                         ELSE s.candidates[i]]]

remove_val_from_peers(s, val, x, y) ==
    [s EXCEPT !.candidates =
        [i \in Cells |-> IF i \in Scanned[get_index(x, y)]
                         THEN remove(s.candidates[i], val)
                         ELSE s.candidates[i]]]

\* the same without cpy.grid.set(val, x, y)
assign_cpy_no_set(s, val, x, y) ==
    LET cleared == [s EXCEPT !.candidates[get_index(x, y)] = ValueSet_empty]
    IN  remove_val_from_peers(cleared, val, x, y)

\* the copy of assign after its three mutations, before the deadlock test
assign_cpy(s, val, x, y) ==
    LET set == [s EXCEPT !.grid = Grid_set(s.grid, val, x, y)]
        cleared == [set EXCEPT !.candidates[get_index(x, y)] = ValueSet_empty]
    IN  remove_val_from_peers(cleared, val, x, y)

\* assign: the test is self.deadlocked(), the receiver, not the copy
assign(s, val, x, y) ==
    IF deadlocked(s) THEN None ELSE Some(assign_cpy(s, val, x, y))

is_solved(s) ==
    \A y \in 0 .. 8 : \A x \in 0 .. 8 : Grid_get(s.grid, x, y) # EMPTY_CELL

\* F(a) with a evaluated once: where TLC evaluates ENABLED it evaluates a
\* LET definition or an argument anew at each of its uses
Let(a, F(_)) == CHOOSE r \in {F(v) : v \in {a}} : TRUE

\* lines 278-283, one turn of the loop at cell i: acc is <<lowest_count,
\* best_i>>, strict tells count < lowest_count from count <= lowest_count
fewest_step(s, i, acc, strict) ==
    LET c == count(s.candidates[i])
    IN  IF c > 0 /\ (c < acc[1] \/ (~strict /\ c = acc[1])) THEN <<c, i>> ELSE acc

\* the loop "for i in 0..NUM_CELLS", i = y * 9 + x ascending, taken a row
\* at a time (81 nested turns are too deep for TLC to evaluate): the turns
\* of row y from column x on, and the rows from y on
RECURSIVE fewest_scan_row(_, _, _, _, _)
fewest_scan_row(s, y, x, acc, strict) ==
    IF x = 9 THEN acc
    ELSE Let(fewest_step(s, get_index(x, y), acc, strict),
             LAMBDA a : fewest_scan_row(s, y, x + 1, a, strict))

RECURSIVE fewest_scan(_, _, _, _)
fewest_scan(s, y, acc, strict) ==
    IF y = 9 THEN acc
    ELSE Let(fewest_scan_row(s, y, 0, acc, strict),
             LAMBDA a : fewest_scan(s, y + 1, a, strict))

\* lines 285-289; NUM_CELLS stands for usize::MAX, "no cell yet"
fewest_result(s, best_i) ==
    IF best_i # NUM_CELLS
    THEN Some([cands |-> s.candidates[best_i], x |-> best_i % 9, y |-> best_i \div 9])
    ELSE None

\* the same with count <= lowest_count: the last cell of the least count
candidate_fewest_choices_last(s) ==
    fewest_result(s, fewest_scan(s, 0, <<99, NUM_CELLS>>, FALSE)[2])

candidate_fewest_choices(s) ==
    fewest_result(s, fewest_scan(s, 0, <<99, NUM_CELLS>>, TRUE)[2])

-----------------------------------------------------------------------------
(* Input boards *)

\* a solved Sudoku (the solution of the repository's test grid)
SolvedRows ==
    << 4,1,7,3,6,9,8,2,5,
       6,3,2,1,5,8,9,4,7,
       9,5,8,7,2,4,3,1,6,
       8,2,5,4,3,7,1,6,9,
       7,9,1,5,8,6,4,3,2,
       3,4,6,9,1,2,7,5,8,
       2,8,9,6,4,3,5,7,1,
       5,7,3,2,9,1,6,8,4,
       1,6,4,8,7,5,2,9,3 >>

Solved == [i \in Cells |-> SolvedRows[i + 1]]

\* the cells an input may differ from Solved in: (0,3) (1,3) (0,6) (1,6)
\* hold 8 2 / 2 8, a rectangle with two completions; (8,3) holds 9
Pool == {27, 28, 54, 55, 35}
PoolDigits == {Solved[c] : c \in Pool}

\* at most MaxBlank cells of the pool are blanked
MaxBlank == 4

\* Solved with the cells of E blanked and, when c is a cell, c holding v
Board(E, c, v) ==
    [i \in Cells |-> IF i \in E THEN EMPTY_CELL ELSE IF i = c THEN v ELSE Solved[i]]

\* NUM_CELLS as c: no cell is changed
SmallBoards ==
    {Board(E, NUM_CELLS, EMPTY_CELL) : E \in {F \in SUBSET Pool : Cardinality(F) <= MaxBlank}}
    \cup
    UNION {UNION {{Board(E, c, v) : v \in PoolDigits \ {Solved[c]}} : c \in Pool \ E} :
            E \in {F \in SUBSET Pool : Cardinality(F) <= MaxBlank}}

\* Solved with twelve cells blanked: the first candidate of the first cell
\* solve_recursive tries has no completion, the second one has
BacktrackCells == {18, 19, 20, 27, 29, 30, 35, 37, 39, 46, 48, 53}
BacktrackBoard == Board(BacktrackCells, NUM_CELLS, EMPTY_CELL)

-----------------------------------------------------------------------------
(* Predicates the claims are stated with *)

Units ==
    {RowCells(y) : y \in 0 .. 8} \cup {ColCells(x) : x \in 0 .. 8}
    \cup {BoxCells(x, y) : x \in {0, 3, 6}, y \in {0, 3, 6}}

\* no digit twice in a row, column or box
ConflictFree(g) ==
    \A u \in Units : \A i \in u : \A j \in u :
        (i # j /\ g[i] # EMPTY_CELL) => g[i] # g[j]

EmptyCells(g) == {i \in Cells : g[i] = EMPTY_CELL}

\* the digits held by the other cells of i's row, column and box
PeerDigits(g, i) == {g[j] : j \in Scanned[i] \ {i}} \ {EMPTY_CELL}

-----------------------------------------------------------------------------
(* SpecState: SolveState::new, then any assign calls on empty cells *)

NoCall == [op |-> "none"]

InitState ==
    /\ input \in SmallBoards
    /\ grid = [i \in Cells |-> EMPTY_CELL]
    /\ nsets = 0
    /\ outcome = NoCall
    /\ text = << >>
    /\ parsed = None
    /\ st = SolveState_new(input)
    /\ last = NoCall
    /\ stack = << >>
    /\ ret = NoCall
    /\ result = NoCall
    /\ tasks = << >>
    /\ parResult = NoCall

\* s.assign(val, x, y) returned a state, which becomes the current one
AssignSome(val, x, y) ==
    /\ Grid_get(st.grid, x, y) = EMPTY_CELL
    /\ assign(st, val, x, y).some
    /\ st' = assign(st, val, x, y).val
    /\ last' = [op |-> "assign", self |-> st, val |-> val, x |-> x, y |-> y,
                res |-> assign(st, val, x, y)]
    /\ UNCHANGED <<input, grid, nsets, outcome, text, parsed, stack, ret, result, tasks, parResult>>

\* s.assign(val, x, y) returned None
AssignNone(val, x, y) ==
    /\ Grid_get(st.grid, x, y) = EMPTY_CELL
    /\ ~assign(st, val, x, y).some
    /\ last' = [op |-> "assign", self |-> st, val |-> val, x |-> x, y |-> y,
                res |-> None]
    /\ UNCHANGED <<input, grid, nsets, outcome, text, parsed, st, stack, ret, result, tasks, parResult>>

NextState ==
    \E val \in PoolDigits : \E x \in 0 .. 8 : \E y \in 0 .. 8 :
        \/ AssignSome(val, x, y)
        \/ AssignNone(val, x, y)

SpecState == InitState /\ [][NextState]_vars

-----------------------------------------------------------------------------
(* SpecGrid: Grid::new, then Grid::set / Grid::get calls, then the text    *)
(* rendered from the grid and parse_grid applied to it                      *)

\* the boards of SmallBoards that only blank cells of Solved
BlankBoards ==
    {Board(E, NUM_CELLS, EMPTY_CELL) : E \in {F \in SUBSET Pool : Cardinality(F) <= MaxBlank}}

\* at most MaxSets calls of Grid::set in a run
MaxSets == 1

\* coordinates and u8 values the calls are made with: coordinate 9 is out
\* of range; 10 and 16 are no cell values, and 16 has its low 4 bits 0
XCoords == {0, 8, 9}
YCoords == {8, 9}
SetVals == {0, 9, 10, 16}

\* the input as the slice handed to Grid::new, cell 0 replaced by v
Slice(g, v) == [k \in 1 .. NUM_CELLS |-> IF k = 1 THEN v ELSE g[k - 1]]

InitGrid ==
    /\ input \in BlankBoards
    /\ grid = Grid_new(Slice(input, input[0])).val
    /\ nsets = 0
    /\ outcome = NoCall
    /\ text = << >>
    /\ parsed = NoCall
    /\ st = SolveState_new([i \in Cells |-> EMPTY_CELL])
    /\ last = NoCall
    /\ stack = << >>
    /\ ret = NoCall
    /\ result = NoCall
    /\ tasks = << >>
    /\ parResult = NoCall

OtherThanGrid == <<input, st, last, stack, ret, result, tasks, parResult>>

\* Grid::new on a slice whose first value fails the assert: a panic
GridNewPanic(v) ==
    /\ text = << >>
    /\ ~Grid_new(Slice(input, v)).some
    /\ outcome' = [op |-> "new", val |-> v, x |-> 0, y |-> 0, panic |-> TRUE]
    /\ UNCHANGED <<grid, nsets, text, parsed>>
    /\ UNCHANGED OtherThanGrid

\* Grid::new on a slice that passes the assert
GridNewOk(v) ==
    /\ text = << >>
    /\ nsets < MaxSets
    /\ Grid_new(Slice(input, v)).some
    /\ grid' = Grid_new(Slice(input, v)).val
    /\ nsets' = nsets + 1
    /\ outcome' = [op |-> "new", val |-> v, x |-> 0, y |-> 0, panic |-> FALSE]
    /\ UNCHANGED <<text, parsed>>
    /\ UNCHANGED OtherThanGrid

GridSetOk(val, x, y) ==
    /\ text = << >>
    /\ nsets < MaxSets
    /\ IndexOk(x, y)
    /\ grid' = Grid_set(grid, val, x, y)
    /\ nsets' = nsets + 1
    /\ outcome' = [op |-> "set", val |-> val, x |-> x, y |-> y, panic |-> FALSE]
    /\ UNCHANGED <<text, parsed>>
    /\ UNCHANGED OtherThanGrid

\* the assert of get_index fails
GridSetPanic(val, x, y) ==
    /\ text = << >>
    /\ ~IndexOk(x, y)
    /\ outcome' = [op |-> "set", val |-> val, x |-> x, y |-> y, panic |-> TRUE]
    /\ UNCHANGED <<grid, nsets, text, parsed>>
    /\ UNCHANGED OtherThanGrid

GridGetOk(x, y) ==
    /\ text = << >>
    /\ IndexOk(x, y)
    /\ outcome' = [op |-> "get", val |-> Grid_get(grid, x, y), x |-> x, y |-> y,
                   panic |-> FALSE]
    /\ UNCHANGED <<grid, nsets, text, parsed>>
    /\ UNCHANGED OtherThanGrid

GridGetPanic(x, y) ==
    /\ text = << >>
    /\ ~IndexOk(x, y)
    /\ outcome' = [op |-> "get", val |-> 0, x |-> x, y |-> y, panic |-> TRUE]
    /\ UNCHANGED <<grid, nsets, text, parsed>>
    /\ UNCHANGED OtherThanGrid

\* format!("{}", grid)
Render ==
    /\ text = << >>
    /\ text' = Display(grid)
    /\ UNCHANGED <<grid, nsets, outcome, parsed>>
    /\ UNCHANGED OtherThanGrid

\* parse_grid on the rendered text
Parse ==
    /\ text # << >>
    /\ parsed = NoCall
    /\ parsed' = parse_grid(text)
    /\ UNCHANGED <<grid, nsets, outcome, text>>
    /\ UNCHANGED OtherThanGrid

NextGrid ==
    \/ \E v \in SetVals : GridNewPanic(v) \/ GridNewOk(v)
    \/ \E val \in SetVals : \E x \in XCoords : \E y \in YCoords :
         GridSetOk(val, x, y) \/ GridSetPanic(val, x, y)
    \/ \E x \in XCoords : \E y \in YCoords : GridGetOk(x, y) \/ GridGetPanic(x, y)
    \/ Render
    \/ Parse

SpecGrid == InitGrid /\ [][NextGrid]_vars

InRange(g) == \A i \in Cells : g[i] \in 0 .. 9

\* C7 (as claimed): every stored cell value is in 0..9; get and set abort
\* when x or y is outside [0,9); set aborts, and stores nothing, when the
\* value is outside 0..9.
C7_StoredValuesInRange ==
    /\ InRange(grid)
    /\ (outcome.op \in {"get", "set"} /\ ~IndexOk(outcome.x, outcome.y)) => outcome.panic
    /\ (outcome.op = "set" /\ ~ValueOk(outcome.val)) => outcome.panic

\* the symbol of a cell value in the rendering
Symbol(v) == IF v = EMPTY_CELL THEN "." ELSE DigitChars[v + 1]

\* C8: for a grid with cell values in 0..9, parse_grid of the rendered text
\* returns the grid, and the characters extracted are exactly the 81 cell
\* symbols in row-major order.
C8_RoundTrip ==
    (parsed # NoCall /\ InRange(grid)) =>
        /\ parsed = Some(grid)
        /\ Extracted(text) = [k \in 1 .. NUM_CELLS |-> Symbol(grid[k - 1])]

\* a round trip of a grid changed by Grid::set, with empty and assigned cells
C8_Witness ==
    /\ parsed # NoCall
    /\ parsed.some
    /\ InRange(grid)
    /\ grid # input
    /\ \E i \in Cells : grid[i] = EMPTY_CELL
    /\ \E i \in Cells : grid[i] = 9

-----------------------------------------------------------------------------
(* SpecSeq: solve_recursive, one frame of the stack per call of            *)
(* solve_recursive_internal                                                 *)

\* the grid of tests::can_solve and tests::candidates, as written
TEST_GRID ==
    << "\n",
       " ", " ", " ", " ", "4", " ", ".", " ", ".", " ", "|", ".", " ", ".", " ", ".", " ", "|", "8", " ", ".", " ", "5", " ", "\n",
       " ", " ", " ", " ", ".", " ", "3", " ", ".", " ", "|", ".", " ", ".", " ", ".", " ", "|", ".", " ", ".", " ", ".", " ", "\n",
       " ", " ", " ", " ", ".", " ", ".", " ", ".", " ", "|", "7", " ", ".", " ", ".", " ", "|", ".", " ", ".", " ", ".", " ", "\n",
       " ", " ", " ", " ", "-", "-", "-", "-", "-", "-", "+", "-", "-", "-", "-", "-", "-", "+", "-", "-", "-", "-", "-", "-", "\n",
       " ", " ", " ", " ", ".", " ", "2", " ", ".", " ", "|", ".", " ", ".", " ", ".", " ", "|", ".", " ", "6", " ", ".", " ", "\n",
       " ", " ", " ", " ", ".", " ", ".", " ", ".", " ", "|", ".", " ", "8", " ", ".", " ", "|", "4", " ", ".", " ", ".", " ", "\n",
       " ", " ", " ", " ", ".", " ", ".", " ", ".", " ", "|", ".", " ", "1", " ", ".", " ", "|", ".", " ", ".", " ", ".", " ", "\n",
       " ", " ", " ", " ", "-", "-", "-", "-", "-", "-", "+", "-", "-", "-", "-", "-", "-", "+", "-", "-", "-", "-", "-", "-", "\n",
       " ", " ", " ", " ", ".", " ", ".", " ", ".", " ", "|", "6", " ", ".", " ", "3", " ", "|", ".", " ", "7", " ", ".", " ", "\n",
       " ", " ", " ", " ", "5", " ", ".", " ", ".", " ", "|", "2", " ", ".", " ", ".", " ", "|", ".", " ", ".", " ", ".", " ", "\n",
       " ", " ", " ", " ", "1", " ", ".", " ", "4", " ", "|", ".", " ", ".", " ", ".", " ", "|", ".", " ", ".", " ", ".", " ", "\n" >>

TestBoard == parse_grid(TEST_GRID).val

\* a frame at the head of the function, and one inside "for cand in cands"
\* with the ValueSetIterator (cands, next) and the cell (x, y)
StartFrame(s) == [st |-> s, pc |-> "start", cands |-> {}, next |-> 0, x |-> 0, y |-> 0]
LoopFrame(s, c) == [st |-> s, pc |-> "loop", cands |-> c.cands, next |-> 0, x |-> c.x, y |-> c.y]

Top == stack[Len(stack)]
Pop == SubSeq(stack, 1, Len(stack) - 1)
Returning == ret # NoCall

InitSeq ==
    /\ input \in SmallBoards \cup {BacktrackBoard, TestBoard}
    /\ grid = [i \in Cells |-> EMPTY_CELL]
    /\ nsets = 0
    /\ outcome = NoCall
    /\ text = << >>
    /\ parsed = None
    /\ st = SolveState_new([i \in Cells |-> EMPTY_CELL])
    /\ last = NoCall
    /\ stack = <<StartFrame(SolveState_new(input))>>
    /\ ret = NoCall
    /\ result = NoCall
    /\ tasks = << >>
    /\ parResult = NoCall

OtherThanSeq == <<input, grid, nsets, outcome, text, parsed, st, last, tasks, parResult>>

\* lines 324-326: the state is solved and is returned
SeqSolved ==
    /\ stack # << >> /\ ~Returning
    /\ Top.pc = "start"
    /\ is_solved(Top.st)
    /\ ret' = Some(Top.st)
    /\ stack' = Pop
    /\ UNCHANGED result
    /\ UNCHANGED OtherThanSeq

\* line 328: a cell is chosen and its candidates are iterated
SeqChoose ==
    /\ stack # << >> /\ ~Returning
    /\ Top.pc = "start"
    /\ ~is_solved(Top.st)
    /\ candidate_fewest_choices(Top.st).some
    /\ stack' = [stack EXCEPT ![Len(stack)] =
                    LoopFrame(Top.st, candidate_fewest_choices(Top.st).val)]
    /\ UNCHANGED <<ret, result>>
    /\ UNCHANGED OtherThanSeq

\* lines 328, 338: no cell to choose, None is returned
SeqNoChoice ==
    /\ stack # << >> /\ ~Returning
    /\ Top.pc = "start"
    /\ ~is_solved(Top.st)
    /\ ~candidate_fewest_choices(Top.st).some
    /\ ret' = None
    /\ stack' = Pop
    /\ UNCHANGED result
    /\ UNCHANGED OtherThanSeq

\* lines 329-332: the next candidate is assigned and the branch is entered
SeqBranch ==
    /\ stack # << >> /\ ~Returning
    /\ Top.pc = "loop"
    /\ LET it == ValueSetIterator_next(Top.cands, Top.next)
       IN  /\ it.item.some
           /\ assign(Top.st, it.item.val, Top.x, Top.y).some
           /\ stack' = Append([stack EXCEPT ![Len(stack)].next = it.next],
                              StartFrame(assign(Top.st, it.item.val, Top.x, Top.y).val))
    /\ UNCHANGED <<ret, result>>
    /\ UNCHANGED OtherThanSeq

\* lines 329-331: assign returned None, the loop goes on
SeqPruned ==
    /\ stack # << >> /\ ~Returning
    /\ Top.pc = "loop"
    /\ LET it == ValueSetIterator_next(Top.cands, Top.next)
       IN  /\ it.item.some
           /\ ~assign(Top.st, it.item.val, Top.x, Top.y).some
           /\ stack' = [stack EXCEPT ![Len(stack)].next = it.next]
    /\ UNCHANGED <<ret, result>>
    /\ UNCHANGED OtherThanSeq

\* lines 329, 338: the candidates are used up, None is returned
SeqExhausted ==
    /\ stack # << >> /\ ~Returning
    /\ Top.pc = "loop"
    /\ ~ValueSetIterator_next(Top.cands, Top.next).item.some
    /\ ret' = None
    /\ stack' = Pop
    /\ UNCHANGED result
    /\ UNCHANGED OtherThanSeq

\* lines 332-334: the branch returned a state, which is returned at once
SeqPropagate ==
    /\ stack # << >> /\ Returning
    /\ ret.some
    /\ stack' = Pop
    /\ UNCHANGED <<ret, result>>
    /\ UNCHANGED OtherThanSeq

\* lines 332, 335: the branch returned None, the loop goes on
SeqBacktrack ==
    /\ stack # << >> /\ Returning
    /\ ~ret.some
    /\ ret' = NoCall
    /\ UNCHANGED <<stack, result>>
    /\ UNCHANGED OtherThanSeq

\* solve_recursive, line 366: .map(|st| st.grid)
SeqFinish ==
    /\ stack = << >> /\ Returning
    /\ result = NoCall
    /\ result' = IF ret.some THEN Some(ret.val.grid) ELSE None
    /\ UNCHANGED <<stack, ret>>
    /\ UNCHANGED OtherThanSeq

NextSeq ==
    \/ SeqSolved
    \/ SeqChoose
    \/ SeqNoChoice
    \/ SeqBranch
    \/ SeqPruned
    \/ SeqExhausted
    \/ SeqPropagate
    \/ SeqBacktrack
    \/ SeqFinish

SpecSeq == InitSeq /\ [][NextSeq]_vars

\* the solver is one thread that runs until it returns
FairSeq == SpecSeq /\ WF_vars(NextSeq)

-----------------------------------------------------------------------------
(* SpecPar: solve_recursive_par after solve_recursive on the same input.   *)
(* A task is one call of the closure of line 351 (or the root call), named *)
(* by the candidates chosen from the root down to it.                       *)

\* cands.into_iter().collect(): the items of the iterator from next on
RECURSIVE collect(_, _)
collect(s, next) ==
    LET it == ValueSetIterator_next(s, next)
    IN  IF it.item.some THEN <<it.item.val>> \o collect(s, it.next) ELSE << >>

\* the highest match instead of the first
find_last(rs) ==
    LET m == {k \in 1 .. Len(rs) : rs[k] # NoCall /\ rs[k].some}
    IN  IF m = {} THEN None ELSE Some(rs[CHOOSE k \in m : \A j \in m : j <= k])

\* ParallelIterator::find_first(|&st| st.is_some()) on the results of the
\* items in item order (NoCall: the item was never run): the first match
find_first(rs) ==
    LET m == {k \in 1 .. Len(rs) : rs[k] # NoCall /\ rs[k].some}
    IN  IF m = {} THEN None ELSE Some(rs[CHOOSE k \in m : \A j \in m : k <= j])

Queued(s) == [status |-> "queued", st |-> s, cands |-> << >>, x |-> 0, y |-> 0, res |-> NoCall]
Done(t, r) == [t EXCEPT !.status = "done", !.res = r]

Parent(p) == SubSeq(p, 1, Len(p) - 1)
Child(p, k) == Append(p, tasks[p].cands[k])
IsTask(p) == p \in DOMAIN tasks

\* the state the call of task p is made on: the root's, or the branch the
\* closure got from assign (line 353)
Branch(p) ==
    IF p = << >> THEN Some(tasks[p].st)
    ELSE assign(tasks[Parent(p)].st, p[Len(p)], tasks[Parent(p)].x, tasks[Parent(p)].y)

SeqDone == result # NoCall

InitPar ==
    /\ input \in SmallBoards \cup {BacktrackBoard}
    /\ grid = [i \in Cells |-> EMPTY_CELL]
    /\ nsets = 0
    /\ outcome = NoCall
    /\ text = << >>
    /\ parsed = None
    /\ st = SolveState_new([i \in Cells |-> EMPTY_CELL])
    /\ last = NoCall
    /\ stack = <<StartFrame(SolveState_new(input))>>
    /\ ret = NoCall
    /\ result = NoCall
    /\ tasks = (<< >> :> Queued(SolveState_new(input)))
    /\ parResult = NoCall

OtherThanPar == <<input, grid, nsets, outcome, text, parsed, st, last, stack, ret, result>>

\* line 353: assign returned None, the closure returns None
ParPruned(p) ==
    /\ SeqDone /\ IsTask(p)
    /\ tasks[p].status = "queued"
    /\ ~Branch(p).some
    /\ tasks' = [tasks EXCEPT ![p] = Done(@, None)]
    /\ UNCHANGED parResult
    /\ UNCHANGED OtherThanPar

\* lines 342-344: the state is solved and is returned
ParSolved(p) ==
    /\ SeqDone /\ IsTask(p)
    /\ tasks[p].status = "queued"
    /\ Branch(p).some
    /\ is_solved(Branch(p).val)
    /\ tasks' = [tasks EXCEPT ![p] = Done([@ EXCEPT !.st = Branch(p).val], Some(Branch(p).val))]
    /\ UNCHANGED parResult
    /\ UNCHANGED OtherThanPar

\* lines 346-351: a cell is chosen, its candidates are collected and one
\* closure per candidate is handed to the pool
ParFork(p) ==
    /\ SeqDone /\ IsTask(p)
    /\ tasks[p].status = "queued"
    /\ Branch(p).some
    /\ ~is_solved(Branch(p).val)
    /\ candidate_fewest_choices(Branch(p).val).some
    /\ LET s == Branch(p).val
           c == candidate_fewest_choices(s).val
           arr == collect(c.cands, 0)
           kids == {Append(p, arr[k]) : k \in 1 .. Len(arr)}
       IN  tasks' = [q \in DOMAIN tasks \cup kids |->
                        IF q = p
                        THEN [status |-> "forked", st |-> s, cands |-> arr,
                              x |-> c.x, y |-> c.y, res |-> NoCall]
                        ELSE IF q \in kids THEN Queued(s) ELSE tasks[q]]
    /\ UNCHANGED parResult
    /\ UNCHANGED OtherThanPar

\* lines 346, 362: no cell to choose, None is returned
ParDeadEnd(p) ==
    /\ SeqDone /\ IsTask(p)
    /\ tasks[p].status = "queued"
    /\ Branch(p).some
    /\ ~is_solved(Branch(p).val)
    /\ ~candidate_fewest_choices(Branch(p).val).some
    /\ tasks' = [tasks EXCEPT ![p] = Done([@ EXCEPT !.st = Branch(p).val], None)]
    /\ UNCHANGED parResult
    /\ UNCHANGED OtherThanPar

\* find_first: an item right of a match already found need not be run
ParSkip(p) ==
    /\ SeqDone /\ IsTask(p)
    /\ p # << >>
    /\ tasks[p].status = "queued"
    /\ \E k \in 1 .. Len(tasks[Parent(p)].cands) :
         /\ tasks[Parent(p)].cands[k] < p[Len(p)]
         /\ tasks[Child(Parent(p), k)].status = "done"
         /\ tasks[Child(Parent(p), k)].res.some
    /\ tasks' = [tasks EXCEPT ![p].status = "skipped"]
    /\ UNCHANGED parResult
    /\ UNCHANGED OtherThanPar

\* line 360: every closure has returned or was never run; the first match,
\* if any, is returned
ParJoin(p) ==
    /\ SeqDone /\ IsTask(p)
    /\ tasks[p].status = "forked"
    /\ \A k \in 1 .. Len(tasks[p].cands) : tasks[Child(p, k)].status \in {"done", "skipped"}
    /\ LET found == find_first([k \in 1 .. Len(tasks[p].cands) |-> tasks[Child(p, k)].res])
       IN  tasks' = [tasks EXCEPT ![p] = Done(@, IF found.some THEN found.val ELSE None)]
    /\ UNCHANGED parResult
    /\ UNCHANGED OtherThanPar

\* solve_recursive_par, line 370: .map(|st| st.grid)
ParFinish ==
    /\ SeqDone
    /\ parResult = NoCall
    /\ tasks[<< >>].status = "done"
    /\ parResult' = IF tasks[<< >>].res.some THEN Some(tasks[<< >>].res.val.grid) ELSE None
    /\ UNCHANGED tasks
    /\ UNCHANGED OtherThanPar

NextPar ==
    \/ \E p \in DOMAIN tasks : ParPruned(p)
    \/ \E p \in DOMAIN tasks : ParSolved(p)
    \/ \E p \in DOMAIN tasks : ParFork(p)
    \/ \E p \in DOMAIN tasks : ParDeadEnd(p)
    \/ \E p \in DOMAIN tasks : ParSkip(p)
    \/ \E p \in DOMAIN tasks : ParJoin(p)
    \/ ParFinish

SpecPar == InitPar /\ [][NextSeq \/ NextPar]_vars

\* the children of a task that was forked, in item order
Kids(p) == [k \in 1 .. Len(tasks[p].cands) |-> tasks[Child(p, k)]]

\* C3: whatever the order the branches are run in, every call of
\* solve_recursive_internal_par returns the result of the first branch, in
\* ascending candidate order, that produced a solution (every branch before
\* it was run and produced none), and solve_recursive_par returns what
\* solve_recursive returns.
C3_FirstBranchInCandidateOrder ==
    /\ \A p \in DOMAIN tasks :
         (tasks[p].status = "done" /\ tasks[p].cands # << >>) =>
            /\ \A k \in 1 .. Len(tasks[p].cands) - 1 : tasks[p].cands[k] < tasks[p].cands[k + 1]
            /\ tasks[p].res.some <=> \E k \in DOMAIN Kids(p) : Kids(p)[k].res # NoCall /\ Kids(p)[k].res.some
            /\ tasks[p].res.some =>
                 \E k \in DOMAIN Kids(p) :
                    /\ Kids(p)[k].res = tasks[p].res
                    /\ \A j \in 1 .. k - 1 : Kids(p)[j].status = "done" /\ ~Kids(p)[j].res.some
    /\ parResult # NoCall => parResult = result

\* two branches of one call both produced a solution, not the same one
C3_Witness ==
    /\ parResult # NoCall
    /\ \E p \in DOMAIN tasks :
         \E j \in 1 .. Len(tasks[p].cands) : \E k \in 1 .. Len(tasks[p].cands) :
            /\ j < k
            /\ Kids(p)[j].status = "done" /\ Kids(p)[j].res.some
            /\ Kids(p)[k].status = "done" /\ Kids(p)[k].res.some
            /\ Kids(p)[j].res # Kids(p)[k].res

-----------------------------------------------------------------------------
(* Claims on SolveState and the constraint rule, under SpecState *)

LastCell == get_index(last.x, last.y)

\* C4 (as claimed): assign on a non-deadlocked state with a candidate value
\* returns None when the propagated copy is deadlocked, and any state it
\* returns is not deadlocked and holds the value at (x,y).
C4_AssignRejectsDeadlockedCopy ==
    (/\ last.op = "assign"
     /\ ~deadlocked(last.self)
     /\ contains(last.self.candidates[LastCell], last.val))
    => /\ deadlocked(assign_cpy(last.self, last.val, last.x, last.y)) => ~last.res.some
       /\ last.res.some =>
            /\ ~deadlocked(last.res.val)
            /\ Grid_get(last.res.val.grid, last.x, last.y) = last.val

\* C5: in every SolveState reached from SolveState::new by assign calls on
\* empty cells, an assigned cell has no candidates and an empty cell has
\* exactly the digits no assigned cell of its row, column or box holds.
C5_CandidateCache ==
    \A i \in Cells :
        /\ st.grid[i] # EMPTY_CELL => st.candidates[i] = {}
        /\ st.grid[i] = EMPTY_CELL => st.candidates[i] = Digits \ PeerDigits(st.grid, i)

\* two assign calls in a row, the second one changing a peer's candidates
C5_Witness ==
    /\ last.op = "assign"
    /\ last.res.some
    /\ last.self.grid # input
    /\ \E i \in EmptyCells(st.grid) :
         st.candidates[i] # last.self.candidates[i] /\ st.candidates[i] # {}

\* C6 (as claimed): on a conflict-free board get_candidates is empty exactly
\* for the assigned cells, and for an empty cell holds no digit of a peer.
C6_EmptyIffAssigned ==
    ConflictFree(st.grid) =>
        \A x \in 0 .. 8 : \A y \in 0 .. 8 :
            /\ get_candidates(st.grid, x, y) = {} <=> Grid_get(st.grid, x, y) # EMPTY_CELL
            /\ Grid_get(st.grid, x, y) = EMPTY_CELL =>
                 get_candidates(st.grid, x, y) \cap PeerDigits(st.grid, get_index(x, y)) = {}

\* C6 (amended): on a conflict-free board get_candidates is empty exactly
\* for the assigned cells and for the empty cells whose row, column and box
\* hold all nine digits; for an empty cell it holds no digit of a peer.
C6_EmptyIffAssignedOrBlocked ==
    ConflictFree(st.grid) =>
        \A x \in 0 .. 8 : \A y \in 0 .. 8 :
            /\ get_candidates(st.grid, x, y) = {}
                 <=> \/ Grid_get(st.grid, x, y) # EMPTY_CELL
                     \/ PeerDigits(st.grid, get_index(x, y)) = Digits
            /\ Grid_get(st.grid, x, y) = EMPTY_CELL =>
                 get_candidates(st.grid, x, y) \cap PeerDigits(st.grid, get_index(x, y)) = {}

\* a conflict-free board with an empty cell whose peers hold all nine digits
\* and an empty cell that has candidates
C6_Witness ==
    /\ ConflictFree(st.grid)
    /\ \E i \in EmptyCells(st.grid) : get_candidates(st.grid, i % 9, i \div 9) = {}
    /\ \E i \in EmptyCells(st.grid) : get_candidates(st.grid, i % 9, i \div 9) # {}

PositiveCells(s) == {i \in Cells : count(s.candidates[i]) > 0}

\* C10: candidate_fewest_choices returns an empty cell, with its candidate
\* set, whose count is the least positive one and whose index is the lowest
\* among the cells of that count; it returns None iff no cell has candidates.
C10_FewestChoices ==
    LET r == candidate_fewest_choices(st)
    IN  /\ r.some <=> PositiveCells(st) # {}
        /\ r.some =>
             LET i == get_index(r.val.x, r.val.y)
             IN  /\ IndexOk(r.val.x, r.val.y)
                 /\ i \in PositiveCells(st)
                 /\ st.grid[i] = EMPTY_CELL
                 /\ r.val.cands = st.candidates[i]
                 /\ \A j \in PositiveCells(st) :
                      /\ count(st.candidates[j]) >= count(st.candidates[i])
                      /\ count(st.candidates[j]) = count(st.candidates[i]) => j >= i

\* the least count is shared by two cells and a third cell has more
C10_Witness ==
    LET r == candidate_fewest_choices(st)
    IN  /\ r.some
        /\ \E j \in PositiveCells(st) :
             /\ j > get_index(r.val.x, r.val.y)
             /\ count(st.candidates[j]) = count(r.val.cands)
        /\ \E j \in PositiveCells(st) : count(st.candidates[j]) > count(r.val.cands)

-----------------------------------------------------------------------------
(* Claims on solve_recursive, under SpecSeq and FairSeq *)

Agrees(g, h) == \A i \in Cells : g[i] # EMPTY_CELL => h[i] = g[i]

\* g can be completed: the empty cells are filled one by one, lowest index
\* first, with every digit no peer holds
RECURSIVE Completable(_)
Completable(g) ==
    IF EmptyCells(g) = {} THEN ConflictFree(g)
    ELSE LET i == CHOOSE k \in EmptyCells(g) : \A j \in EmptyCells(g) : k <= j
         IN  \E v \in Digits \ PeerDigits(g, i) : Completable([g EXCEPT ![i] = v])

HasCompletion(g) == (ConflictFree(g) /\ Agrees(g, Solved)) \/ Completable(g)

\* C1 (as claimed): for every input, a board solve_recursive returns has no
\* empty cell, no digit twice in a row, column or box, and agrees with the
\* input on the cells the input had assigned.
C1_ReturnedBoardIsSolution ==
    (result # NoCall /\ result.some) =>
        /\ EmptyCells(result.val) = {}
        /\ ConflictFree(result.val)
        /\ Agrees(input, result.val)

\* C2: for a conflict-free input that has a valid completion, solve_recursive
\* returns a board.
C2_Complete ==
    (result # NoCall /\ ConflictFree(input) /\ HasCompletion(input)) => result.some

\* the grid of tests::can_solve is solved
C2_Witness ==
    /\ result # NoCall
    /\ result.some
    /\ input = TestBoard
    /\ ConflictFree(result.val)

NumEmpty(g) == Cardinality(EmptyCells(g))

\* every call is on a state with fewer empty cells than its caller's, the
\* cell a caller branches on is empty in its state, the candidates iterated
\* are digits, and the depth is at most the number of empty cells of the input
DepthBounded ==
    /\ \A k \in 1 .. Len(stack) - 1 :
         NumEmpty(stack[k + 1].st.grid) < NumEmpty(stack[k].st.grid)
    /\ \A k \in 1 .. Len(stack) :
         stack[k].pc = "loop" =>
            /\ Grid_get(stack[k].st.grid, stack[k].x, stack[k].y) = EMPTY_CELL
            /\ stack[k].cands \subseteq Digits
    /\ Len(stack) - 1 <= NumEmpty(input)

\* C9: solve_recursive terminates on every input, every recursive call is
\* on a state with strictly fewer empty cells than its parent's, and the
\* recursion depth never exceeds the number of empty cells of the input.
C9_Terminates == <>(result # NoCall) /\ []DepthBounded

\* the search went three calls deep, backtracked and returned
C9_Witness ==
    /\ result # NoCall
    /\ NumEmpty(input) >= 3
    /\ ~result.some

====
